---- MODULE Spec2Model ----
(***************************************************************************)
(* Model of the process-liveness probes of src/src/lib.rs: Service         *)
(* (substring match) and ExactService (exact match) over a refreshable     *)
(* snapshot of the operating system's process table.                       *)
(*                                                                         *)
(* Text is a sequence of one-character strings, so that containment,       *)
(* equality and formatting are computed on characters.                     *)
(***************************************************************************)
EXTENDS Integers, Sequences, FiniteSets, TLC

\* ---------------------------------------------------------------- bounds
MaxPid == 2
NumCallers == 2

Pids == 1..MaxPid
Callers == 1..NumCallers

\* ------------------------------------------------------------ input sets
top == <<"t","o","p">>
htop == <<"h","t","o","p">>
nginx == <<"n","g","i","n","x">>
Nginx == <<"N","g","i","n","x">>
nginx_worker == <<"n","g","i","n","x","-","w","o","r","k","e","r">>
space_top == <<" ","t","o","p">>
empty_name == << >>

\* names the operating system may report for a running process
ProcNames == {top, htop, nginx, nginx_worker}
\* texts a caller may hand to new()
TargetNames == {top, nginx, Nginx, space_top, empty_name}
Kinds == {"Service", "ExactService"}

VARIABLES
    os,            \* the operating system's process table: pid -> name
    kind,          \* which of the two types the probe is
    process_name,  \* the probe's pub field process_name
    system,        \* the probe's private field system: pid -> name
    pc,            \* per caller: position inside check()
    result,        \* per caller: the Action being returned by check()
    new_arg,       \* history: the &str handed to new()
    seen,          \* history: the process table as read by the refresh in flight
    refreshed_by,  \* history: the caller whose check() refreshed system last, 0 if none
    prev,          \* history: the Action returned by the previous check()
    os_changed,    \* history: the process table changed since the last refresh
    stable         \* history: the refresh in flight read the table the previous one read

vars == <<os, kind, process_name, system, pc, result, new_arg, seen,
          refreshed_by, prev, os_changed, stable>>

\* ------------------------------------------------------------ data types
EmptyTable == << >>
NoAction == [tag |-> "None"]

\* Action::Nothing
Nothing == [tag |-> "Nothing"]

\* Action::Notify { diagnostic }; an Option is a sequence of zero or one value
Notify(diagnostic) == [tag |-> "Notify", diagnostic |-> diagnostic]

Some(v) == <<v>>

\* ---------------------------------------------------------- pure helpers
Lower(c) == IF c = "N" THEN "n" ELSE c

to_string_lowercase(s) == [i \in 1..Len(s) |-> Lower(s[i])]

\* str::to_string: a fresh String holding the same characters
to_string(s) == [i \in 1..Len(s) |-> s[i]]

format_is_up(name) == name \o <<" ","i","s"," ","u","p">>

\* format!("{} is down", name)
format_is_down(name) == name \o <<" ","i","s"," ","d","o","w","n">>

contains_before_end(s, p) ==
    \E i \in 0..(Len(s) - Len(p) - 1) : SubSeq(s, i + 1, i + Len(p)) = p

\* str::contains: p occurs in s at some offset
contains(s, p) ==
    \E i \in 0..(Len(s) - Len(p)) : SubSeq(s, i + 1, i + Len(p)) = p

processes_by_name_proper(sys, name) ==
    {pid \in DOMAIN sys : contains_before_end(sys[pid], name)}

processes_by_prefix_name(sys, name) ==
    {pid \in DOMAIN sys : Len(sys[pid]) >= Len(name)
                          /\ SubSeq(sys[pid], 1, Len(name)) = name}

\* System::processes_by_name: the processes whose name contains `name`
processes_by_name(sys, name) ==
    {pid \in DOMAIN sys : contains(sys[pid], name)}

processes_by_exact_name_substring(sys, name) ==
    {pid \in DOMAIN sys : contains(sys[pid], name)}

\* System::processes_by_exact_name: the processes whose name equals `name`
processes_by_exact_name(sys, name) ==
    {pid \in DOMAIN sys : sys[pid] = name}

refresh_processes_keep_dead(sys, table) ==
    [pid \in DOMAIN sys \cup DOMAIN table |->
        IF pid \in DOMAIN table THEN table[pid] ELSE sys[pid]]

\* System::refresh_processes: the snapshot becomes the table as it is now
refresh_processes(sys, table) == table

Notify_up(name) == Notify(Some(format_is_up(name)))

\* the Action of the branch taken when no process matched
Notify_down(name) == Notify(Some(format_is_down(name)))

Service_check_inverted(sys, name) ==
    IF processes_by_name(sys, name) # {} THEN Notify_down(name) ELSE Nothing

Service_check_on_edge(sys, name) ==
    IF processes_by_name(sys, name) = {}
    THEN (IF prev.tag = "Notify" THEN Nothing ELSE Notify_down(name))
    ELSE Nothing

\* Service::check after the refresh
Service_check(sys, name) ==
    IF processes_by_name(sys, name) = {} THEN Notify_down(name) ELSE Nothing

\* ExactService::check after the refresh
ExactService_check(sys, name) ==
    IF processes_by_exact_name(sys, name) = {} THEN Notify_down(name) ELSE Nothing

shared_borrow(c) == TRUE

\* fn check(&mut self): the caller holds the probe exclusively for the call
exclusive_borrow(c) == \A d \in Callers \ {c} : pc[d] = "idle"

\* ---------------------------------------------------------------- states
Init ==
    /\ os = EmptyTable
    /\ kind \in Kinds
    /\ new_arg \in TargetNames
    /\ process_name = to_string(new_arg)
    /\ system = EmptyTable
    /\ pc = [c \in Callers |-> "idle"]
    /\ result = [c \in Callers |-> NoAction]
    /\ seen = EmptyTable
    /\ refreshed_by = 0
    /\ prev = NoAction
    /\ os_changed = TRUE
    /\ stable = FALSE

\* a process starts
Spawn(pid, name) ==
    /\ pid \notin DOMAIN os
    /\ os' = [p \in DOMAIN os \cup {pid} |-> IF p = pid THEN name ELSE os[p]]
    /\ os_changed' = TRUE
    /\ UNCHANGED <<kind, process_name, system, pc, result, new_arg, seen,
                   refreshed_by, prev, stable>>

\* a process exits
Exit(pid) ==
    /\ pid \in DOMAIN os
    /\ os' = [p \in DOMAIN os \ {pid} |-> os[p]]
    /\ os_changed' = TRUE
    /\ UNCHANGED <<kind, process_name, system, pc, result, new_arg, seen,
                   refreshed_by, prev, stable>>

\* check(), first statement: self.system.refresh_processes()
Refresh(c) ==
    /\ pc[c] = "idle"
    /\ exclusive_borrow(c)
    /\ system' = refresh_processes(system, os)
    /\ seen' = os
    /\ refreshed_by' = c
    /\ os_changed' = FALSE
    /\ stable' = ~os_changed
    /\ pc' = [pc EXCEPT ![c] = "refreshed"]
    /\ UNCHANGED <<os, kind, process_name, result, new_arg, prev>>

\* check(), the if/else: query the snapshot and build the Action
Query(c) ==
    /\ pc[c] = "refreshed"
    /\ result' = [result EXCEPT ![c] =
                    IF kind = "Service"
                    THEN Service_check(system, process_name)
                    ELSE ExactService_check(system, process_name)]
    /\ pc' = [pc EXCEPT ![c] = "done"]
    /\ UNCHANGED <<os, kind, process_name, system, new_arg, seen,
                   refreshed_by, prev, os_changed, stable>>

\* check() returns: the caller takes the Action and the borrow ends
Return(c) ==
    /\ pc[c] = "done"
    /\ prev' = result[c]
    /\ result' = [result EXCEPT ![c] = NoAction]
    /\ pc' = [pc EXCEPT ![c] = "idle"]
    /\ UNCHANGED <<os, kind, process_name, system, new_arg, seen,
                   refreshed_by, os_changed, stable>>

Next ==
    \/ \E pid \in Pids, name \in ProcNames : Spawn(pid, name)
    \/ \E pid \in Pids : Exit(pid)
    \/ \E c \in Callers : Refresh(c)
    \/ \E c \in Callers : Query(c)
    \/ \E c \in Callers : Return(c)

Spec == Init /\ [][Next]_vars

\* ------------------------------------------------------------ properties
TypeOK ==
    /\ DOMAIN os \subseteq Pids
    /\ \A pid \in DOMAIN os : os[pid] \in ProcNames
    /\ kind \in Kinds
    /\ pc \in [Callers -> {"idle", "refreshed", "done"}]
    /\ refreshed_by \in Callers \cup {0}

IsDown == <<" ","i","s"," ","d","o","w","n">>

\* s is p followed by " is down"
IsDownText(s, p) ==
    /\ Len(s) = Len(p) + Len(IsDown)
    /\ \A i \in 1..Len(p) : s[i] = p[i]
    /\ \A i \in 1..Len(IsDown) : s[Len(p) + i] = IsDown[i]

\* a is a Notify whose diagnostic is present and reads "<p> is down"
IsNotifyDown(a, p) ==
    /\ a.tag = "Notify"
    /\ Len(a.diagnostic) = 1
    /\ IsDownText(a.diagnostic[1], p)

\* p occurs in s as a contiguous run of characters
Occurs(s, p) ==
    \E i \in 0..Len(s), j \in 0..Len(s) :
        /\ i <= j
        /\ j - i = Len(p)
        /\ \A k \in 1..Len(p) : s[i + k] = p[k]

HasSubstring(table, p) == \E pid \in DOMAIN table : Occurs(table[pid], p)

HasExact(table, p) ==
    \E pid \in DOMAIN table :
        /\ Len(table[pid]) = Len(p)
        /\ \A k \in 1..Len(p) : table[pid][k] = p[k]

Matches(table, p) ==
    IF kind = "Service" THEN HasSubstring(table, p) ELSE HasExact(table, p)

Names(table) == {table[pid] : pid \in DOMAIN table}

\* C1: a Service check whose refresh read a table with some process name
\* containing process_name returns Action::Nothing.
C1_SubstringFoundIsNothing ==
    \A c \in Callers :
        (pc[c] = "done" /\ kind = "Service" /\ HasSubstring(seen, process_name))
            => result[c] = Nothing

C1_Witness ==
    \E c \in Callers :
        /\ pc[c] = "done" /\ kind = "Service"
        /\ process_name = top /\ Names(seen) = {htop}
        /\ result[c] = Nothing

\* C2: a Service check whose refresh read a table with no process name
\* containing process_name returns Notify with the diagnostic present and
\* equal to process_name followed by " is down".
C2_SubstringAbsentIsNotifyDown ==
    \A c \in Callers :
        (pc[c] = "done" /\ kind = "Service" /\ ~HasSubstring(seen, process_name))
            => IsNotifyDown(result[c], process_name)

C2_Witness ==
    \E c \in Callers :
        /\ pc[c] = "done" /\ kind = "Service"
        /\ process_name = nginx /\ Names(seen) = {top, htop}
        /\ result[c].tag = "Notify"

\* C3: an ExactService check returns Action::Nothing exactly when some
\* process name read by its refresh equals process_name, and otherwise
\* Notify with the diagnostic "<process_name> is down".
C3_ExactIffNothing ==
    \A c \in Callers :
        (pc[c] = "done" /\ kind = "ExactService")
            => /\ (result[c] = Nothing) <=> HasExact(seen, process_name)
               /\ ~HasExact(seen, process_name)
                    => IsNotifyDown(result[c], process_name)

C3_Witness ==
    \E c \in Callers :
        /\ pc[c] = "done" /\ kind = "ExactService"
        /\ process_name = nginx /\ nginx_worker \in Names(seen)
        /\ nginx \notin Names(seen)
        /\ result[c].tag = "Notify"

\* C4: a check of either kind whose refresh read an empty table returns
\* Notify with the down diagnostic, and a check never returns anything but
\* Action::Nothing or Action::Notify.
C4_EmptyTableIsNotifyDown ==
    \A c \in Callers :
        pc[c] = "done"
            => /\ seen = EmptyTable => IsNotifyDown(result[c], process_name)
               /\ result[c].tag \in {"Nothing", "Notify"}

C4_Witness ==
    \E c \in Callers :
        /\ pc[c] = "done" /\ seen = EmptyTable
        /\ prev = Nothing
        /\ result[c].tag = "Notify"

\* C5: a check whose refresh read the process table unchanged since the
\* previous check's refresh returns the Action the previous check returned.
C5_Idempotent ==
    \A c \in Callers :
        (pc[c] = "done" /\ stable) => result[c] = prev

C5_Witness ==
    \E c \in Callers :
        /\ pc[c] = "done" /\ stable
        /\ prev.tag = "Notify" /\ result[c].tag = "Notify"

\* C6: process_name is the text handed to new(), character for character,
\* and no step ever changes it.
C6_NameVerbatimAndFrozen ==
    /\ [](process_name = new_arg)
    /\ [][process_name' = process_name]_vars

C6_Witness ==
    /\ process_name \in {Nginx, space_top}
    /\ prev # NoAction
    /\ \E c \in Callers : pc[c] = "done"

\* C7: the target process name of a probe is never the empty text.
C7_NameNonEmpty == Len(process_name) > 0

\* C8: after the refresh the snapshot is the table just read, and the Action
\* returned follows from that table alone: whatever the previous check
\* returned, a matching process gives Action::Nothing and none gives Notify.
C8_FreshEvaluation ==
    \A c \in Callers :
        /\ pc[c] \in {"refreshed", "done"} => system = seen
        /\ pc[c] = "done"
            => /\ Matches(seen, process_name) => result[c] = Nothing
               /\ ~Matches(seen, process_name) => result[c].tag = "Notify"

C8_Witness ==
    \E c \in Callers :
        /\ pc[c] = "done"
        /\ prev = Nothing /\ result[c].tag = "Notify"
        /\ os # EmptyTable

\* C9: between an invocation's refresh and its query no other invocation
\* refreshes the snapshot, so the query reads its own refresh.
C9_CriticalSection ==
    \A c \in Callers :
        pc[c] = "refreshed" => (refreshed_by = c /\ system = seen)

C9_Witness ==
    /\ pc[2] = "refreshed" /\ refreshed_by = 2
    /\ prev # NoAction
    /\ os_changed

\* C10: on the table a check read, an ExactService Action::Nothing implies a
\* Service Action::Nothing for the same name, and a Service Notify implies an
\* ExactService Notify.
C10_ExactImpliesSubstring ==
    \A c \in Callers :
        pc[c] = "done"
            => /\ (kind = "ExactService" /\ result[c] = Nothing)
                    => Service_check(seen, process_name) = Nothing
               /\ (kind = "Service" /\ result[c].tag = "Notify")
                    => ExactService_check(seen, process_name).tag = "Notify"

C10_Witness ==
    \E c \in Callers :
        /\ pc[c] = "done" /\ kind = "ExactService"
        /\ result[c] = Nothing
        /\ Service_check(seen, process_name) = Nothing

====
